---------------------------- MODULE Spec2Model ----------------------------
(***************************************************************************)
(* Session lifecycle and error propagation of the three repository         *)
(* classes of the facade:                                                  *)
(*   DDLRepository   (sqlalchemy_facade/src/ddl_repository.py)             *)
(*   ReadRepository  (sqlalchemy_facade/src/read_repository.py)            *)
(*   WriteRepository (sqlalchemy_facade_async/src/write_repository.py)     *)
(*                                                                         *)
(* The ORM is the environment: every ORM call an operation makes either    *)
(* returns or raises an error drawn from Errors.  AsyncSession.close() and *)
(* logger.error() are taken never to raise.  read_repository.py binds its  *)
(* logger with logging.getlogger (line 8); the model describes the class   *)
(* with the logger bound.                                                  *)
(*                                                                         *)
(* Spec     : operations of the three repositories run one after another,  *)
(*            each operation one atomic action.                            *)
(* ConcSpec : operations of one ReadRepository run as asyncio tasks that   *)
(*            interleave at the await points.                              *)
(***************************************************************************)
EXTENDS Integers, Sequences, FiniteSets, TLC

\* Bounds of the model.
MaxOps == 3          \* operations run one after another under Spec
MaxItems == 2        \* length of the schemas / sequences list given to a DDL call
MaxBatches == 2      \* non-empty batches an execute_in_batch result holds
MaxConcOps == 3      \* operations begun in all under ConcSpec

Errors == {"E1", "E2"}   \* errors the ORM / driver can raise
NoErr == "none"
None == 0                \* Python None for the __session field
Tasks == {1, 2}          \* asyncio tasks sharing one ReadRepository

VARIABLES
    w_session,  \* WriteRepository.__session: None or a session id
    r_session,  \* ReadRepository.__session: None or a session id
    sessions,   \* every AsyncSession created so far: id -> [owner, open]
    log,        \* what logger.error() was given, in order
    last,       \* what the caller saw of the operation that finished last
    nops,       \* operations begun
    tasks       \* ConcSpec: each task's position inside its operation

vars == <<w_session, r_session, sessions, log, last, nops, tasks>>

Min(a, b) == IF a < b THEN a ELSE b

--------------------------------------------------------------------------
\* The ORM objects.

\* Session(): a new, open AsyncSession.
NewSession(owner) == [owner |-> owner, open |-> TRUE]

\* An ORM call on the yielded session (or connection) that returns.
ORMCall(st, c) == [st EXCEPT !.trace = Append(@, c)]

RECURSIVE RunCalls(_, _)
RunCalls(st, calls) ==
    IF calls = <<>> THEN st
    ELSE RunCalls(ORMCall(st, Head(calls)), Tail(calls))

\* await session.close() on session id
SessionClose(st, id) ==
    [st EXCEPT !.sess[id].open = FALSE, !.trace = Append(@, "close")]

\* logger.error(e, exc_info=True)
LoggerError(st, e) == [st EXCEPT !.log = Append(@, e)]

\* The repository's state an operation works on.
State(held) == [held |-> held, sess |-> sessions, log |-> log, trace |-> <<>>]

NoOp ==
    [repo |-> "-", op |-> "-", outcome |-> "ok", error |-> NoErr,
     injected |-> NoErr, failcall |-> "-", session |-> None,
     created |-> FALSE, logged |-> <<>>, trace |-> <<>>]

IdleTask == [pc |-> "idle", op |-> "-", mine |-> None, target |-> None,
             pending |-> NoErr, left |-> 0]

Init ==
    /\ w_session = None
    /\ r_session = None
    /\ sessions = <<>>
    /\ log = <<>>
    /\ last = NoOp
    /\ nops = 0
    /\ tasks = [t \in Tasks |-> IdleTask]

--------------------------------------------------------------------------
\* WriteRepository (write_repository.py)

\* close(), lines 49-53
W_close(st) ==
    IF st.held # None
    THEN [SessionClose(st, st.held) EXCEPT !.held = None]
    ELSE st

\* session() without the test of line 28: a session at every request
W_session_enter_always(st) ==
    [st EXCEPT !.sess = Append(@, NewSession("write")),
               !.held = Len(st.sess) + 1]

\* session(), lines 28-32: a session is created only when none is held
W_session_enter(st) ==
    IF st.held = None
    THEN [st EXCEPT !.sess = Append(@, NewSession("write")),
                    !.held = Len(st.sess) + 1]
    ELSE st

\* session() without the raise of line 39: the error ends in the handler
W_session_except_swallow(st, e) ==
    [st |-> LoggerError(W_close(st), e), raised |-> NoErr]

\* session(), lines 36-39: close, log, re-raise the same error
W_session_except(st, e) ==
    [st |-> LoggerError(W_close(st), e), raised |-> e]

\* session(), lines 27-39, around a with-body that makes the ORM calls of
\* body in order.  f says which call raises e: 0 none, -1 Session() itself
\* (line 31), 1..Len(body) that call of the body, Len(body)+1 the flush of
\* line 35.
W_session(st, body, f, e) ==
    IF f = -1 THEN W_session_except(st, e)
    ELSE LET s1 == W_session_enter(st)
             n  == IF f = 0 THEN Len(body) ELSE Min(f - 1, Len(body))
             s2 == RunCalls(s1, SubSeq(body, 1, n))
         IN  IF f = 0
             THEN [st |-> ORMCall(s2, "flush"), raised |-> NoErr]
             ELSE W_session_except(s2, e)

\* the try/except of insert, bulk_insert, update and delete
\* (lines 77-82, 127-132, 139-150, 157-162): close and re-raise
W_try_except(res) ==
    IF res.raised # NoErr
    THEN [res EXCEPT !.st = W_close(res.st)]
    ELSE res

\* commit() without the close of line 63
W_commit_body_noclose(res) == res

\* commit(), lines 60-63, after the with-block returned or raised
W_commit_body(res) ==
    IF res.raised = NoErr
    THEN [res EXCEPT !.st = W_close(res.st)]
    ELSE res

\* rollback(), lines 69-70, after the with-block returned or raised
W_rollback_body(res) == res

\* The call that raised, by name.
FailCall(body, f) ==
    IF f = 0 THEN "-"
    ELSE IF f = -1 THEN "Session"
    ELSE IF f <= Len(body) THEN body[f]
    ELSE "exit"

\* What the caller of a finished operation observes.
Observe(repo, op, st0, res, body, f, e, sid, created) ==
    [repo |-> repo, op |-> op,
     outcome |-> IF res.raised = NoErr THEN "ok" ELSE "raise",
     error |-> res.raised,
     injected |-> IF f = 0 THEN NoErr ELSE e,
     failcall |-> FailCall(body, f),
     session |-> sid,
     created |-> created,
     logged |-> SubSeq(res.st.log, Len(st0.log) + 1, Len(res.st.log)),
     trace |-> res.st.trace]

\* Which failure points an operation with this body has.
W_CanFail(body, f) ==
    /\ f <= Len(body) + 1
    /\ f = -1 => w_session = None

\* Which failure points a ReadRepository operation with this body has.
R_CanFail(body, f) == f <= Len(body)

\* Which failure points a DDLRepository operation with this body has.
D_CanFail(body, f) == f >= 0 /\ f <= Len(body)

\* A WriteRepository operation returns to its caller.
W_Return(op, res, body, f, e) ==
    /\ nops < MaxOps
    /\ w_session' = res.st.held
    /\ sessions' = res.st.sess
    /\ log' = res.st.log
    /\ last' = Observe("write", op, State(w_session), res, body, f, e,
                       IF f = -1 THEN None ELSE W_session_enter(State(w_session)).held,
                       f # -1 /\ w_session = None)
    /\ nops' = nops + 1
    /\ UNCHANGED <<r_session, tasks>>

FailPoints == -1 .. (MaxBatches + 3)

\* start_transaction(), lines 41-47
W_start_transaction ==
    \E f \in FailPoints, e \in Errors :
        LET body == <<"begin">>
        IN  /\ W_CanFail(body, f)
            /\ W_Return("start_transaction", W_session(State(w_session), body, f, e),
                     body, f, e)

\* commit(), lines 55-63
W_commit ==
    \E f \in FailPoints, e \in Errors :
        LET body == <<"commit">>
        IN  /\ W_CanFail(body, f)
            /\ W_Return("commit",
                     W_commit_body(W_session(State(w_session), body, f, e)),
                     body, f, e)

\* rollback(), lines 65-70
W_rollback ==
    \E f \in FailPoints, e \in Errors :
        LET body == <<"rollback">>
        IN  /\ W_CanFail(body, f)
            /\ W_Return("rollback",
                     W_rollback_body(W_session(State(w_session), body, f, e)),
                     body, f, e)

\* insert(), lines 72-82
W_insert ==
    \E f \in FailPoints, e \in Errors :
        LET body == <<"add">>
        IN  /\ W_CanFail(body, f)
            /\ W_Return("insert",
                     W_try_except(W_session(State(w_session), body, f, e)),
                     body, f, e)

\* upsert(), lines 84-95
W_upsert ==
    \E f \in FailPoints, e \in Errors :
        LET body == <<"execute", "flush">>
        IN  /\ W_CanFail(body, f)
            /\ W_Return("upsert", W_session(State(w_session), body, f, e), body, f, e)

\* insert_ignore(), lines 97-104
W_insert_ignore ==
    \E f \in FailPoints, e \in Errors :
        LET body == <<"execute", "flush">>
        IN  /\ W_CanFail(body, f)
            /\ W_Return("insert_ignore", W_session(State(w_session), body, f, e),
                     body, f, e)

\* insert_ignore_get_id(), lines 106-120: the row was inserted (the primary
\* key is returned) or it was not (the row is selected and fetched)
W_insert_ignore_get_id ==
    \E f \in FailPoints, e \in Errors, inserted \in BOOLEAN :
        LET body == IF inserted THEN <<"execute", "flush">>
                    ELSE <<"execute", "flush", "execute", "fetchone">>
        IN  /\ W_CanFail(body, f)
            /\ W_Return("insert_ignore_get_id",
                     W_session(State(w_session), body, f, e), body, f, e)

\* bulk_insert(), lines 122-132
W_bulk_insert ==
    \E f \in FailPoints, e \in Errors :
        LET body == <<"add_all">>
        IN  /\ W_CanFail(body, f)
            /\ W_Return("bulk_insert",
                     W_try_except(W_session(State(w_session), body, f, e)),
                     body, f, e)

\* update(), lines 134-150
W_update ==
    \E f \in FailPoints, e \in Errors :
        LET body == <<"execute", "fetchall">>
        IN  /\ W_CanFail(body, f)
            /\ W_Return("update",
                     W_try_except(W_session(State(w_session), body, f, e)),
                     body, f, e)

\* delete(), lines 152-162
W_delete ==
    \E f \in FailPoints, e \in Errors :
        LET body == <<"execute">>
        IN  /\ W_CanFail(body, f)
            /\ W_Return("delete",
                     W_try_except(W_session(State(w_session), body, f, e)),
                     body, f, e)

\* execute(), lines 164-166
W_execute ==
    \E f \in FailPoints, e \in Errors :
        LET body == <<"execute">>
        IN  /\ W_CanFail(body, f)
            /\ W_Return("execute", W_session(State(w_session), body, f, e), body, f, e)

\* execute_statement(), lines 168-170
W_execute_statement ==
    \E f \in FailPoints, e \in Errors :
        LET body == <<"execute">>
        IN  /\ W_CanFail(body, f)
            /\ W_Return("execute_statement", W_session(State(w_session), body, f, e),
                     body, f, e)

--------------------------------------------------------------------------
\* ReadRepository (read_repository.py)

\* session(), lines 25-27: a new session at every request, stored in the
\* repository's field
R_session_enter(st) ==
    [st EXCEPT !.sess = Append(@, NewSession("read")),
               !.held = Len(st.sess) + 1]

\* close(), lines 40-42, once the await of line 40 on session id returned
R_close_done(st, id) ==
    [SessionClose(st, id) EXCEPT !.held = None]

\* close(), lines 38-42, with nothing running between its lines
R_close(st) ==
    IF st.held # None THEN R_close_done(st, st.held) ELSE st

\* session(), lines 31-34: log, close, re-raise the same error
R_session_except(st, e) ==
    [st |-> R_close(LoggerError(st, e)), raised |-> e]

\* session() without the finally block of lines 35-36
R_session_finally_skip(res) == res

\* session(), lines 35-36
R_session_finally(res) ==
    [res EXCEPT !.st = R_close(res.st)]

\* session(), lines 24-36, around a with-body that makes the ORM calls of
\* body in order; f as for W_session (there is no flush on exit).  caught
\* holds the calls of the body whose error the body itself handles.
R_session(st, body, f, e, caught) ==
    IF f = -1 THEN R_session_finally(R_session_except(st, e))
    ELSE LET s1 == R_session_enter(st)
             n  == IF f = 0 THEN Len(body) ELSE Min(f - 1, Len(body))
             s2 == RunCalls(s1, SubSeq(body, 1, n))
         IN  IF f = 0 \/ f \in caught
             THEN R_session_finally([st |-> s2, raised |-> NoErr])
             ELSE R_session_finally(R_session_except(s2, e))

\* select(), lines 53-56: an error of rows.fetchone()[0] becomes return None
R_select_caught == {2}

\* A ReadRepository operation returns to its caller.
R_Return(op, res, body, f, e) ==
    /\ nops < MaxOps
    /\ r_session' = res.st.held
    /\ sessions' = res.st.sess
    /\ log' = res.st.log
    /\ last' = Observe("read", op, State(r_session), res, body, f, e,
                       IF f = -1 THEN None ELSE R_session_enter(State(r_session)).held,
                       f # -1)
    /\ nops' = nops + 1
    /\ UNCHANGED <<w_session, tasks>>

\* select(), lines 44-56
R_select ==
    \E f \in FailPoints, e \in Errors :
        LET body == <<"execute", "fetchone">>
        IN  /\ R_CanFail(body, f)
            /\ R_Return("select",
                     R_session(State(r_session), body, f, e, R_select_caught),
                     body, f, e)

\* select_all(), lines 58-67
R_select_all ==
    \E f \in FailPoints, e \in Errors :
        LET body == <<"execute", "fetchall">>
        IN  /\ R_CanFail(body, f)
            /\ R_Return("select_all", R_session(State(r_session), body, f, e, {}),
                     body, f, e)

\* execute(), lines 69-72
R_execute ==
    \E f \in FailPoints, e \in Errors :
        LET body == <<"execute", "fetchall">>
        IN  /\ R_CanFail(body, f)
            /\ R_Return("execute", R_session(State(r_session), body, f, e, {}),
                     body, f, e)

\* execute_in_batch(), lines 74-81, consumed to its end: nb non-empty
\* batches, then the empty one that ends the loop
R_execute_in_batch ==
    \E f \in FailPoints, e \in Errors, nb \in 0..MaxBatches :
        LET body == <<"execute">> \o [i \in 1..(nb + 1) |-> "fetchmany"]
        IN  /\ R_CanFail(body, f)
            /\ R_Return("execute_in_batch",
                     R_session(State(r_session), body, f, e, {}), body, f, e)

--------------------------------------------------------------------------
\* DDLRepository (ddl_repository.py): every call runs inside
\* "async with self.__engine.begin() as connection", which begins a
\* transaction and commits it when the block is left normally.

RECURSIVE D_loop(_, _)
D_loop(n, call) ==
    IF n = 0 THEN <<>> ELSE <<"begin", call, "commit">> \o D_loop(n - 1, call)

\* create_schemas(), lines 20-23: the error of connection.execute is passed
\* over (except Exception: pass)
D_create_schemas_caught(body) == {i \in 1..Len(body) : body[i] = "execute"}

\* The calls of body in order; the call f raises e, which ends the
\* operation unless the body handles it.  Nothing is logged.
D_run(st, body, f, e, caught) ==
    IF f = 0 THEN [st |-> RunCalls(st, body), raised |-> NoErr]
    ELSE IF f \in caught
    THEN [st |-> RunCalls(st, SubSeq(body, 1, f - 1) \o SubSeq(body, f + 1, Len(body))),
          raised |-> NoErr]
    ELSE [st |-> RunCalls(st, SubSeq(body, 1, f - 1)), raised |-> e]

\* A DDLRepository operation returns to its caller.
D_Return(op, res, body, f, e) ==
    /\ nops < MaxOps
    /\ log' = res.st.log
    /\ last' = Observe("ddl", op, State(None), res, body, f, e, None, FALSE)
    /\ nops' = nops + 1
    /\ UNCHANGED <<w_session, r_session, sessions, tasks>>

DDLFailPoints == 0 .. (3 * MaxItems)

\* create_schemas(), lines 13-23
D_create_schemas ==
    \E n \in 0..MaxItems, f \in DDLFailPoints, e \in Errors :
        LET body == D_loop(n, "execute")
        IN  /\ D_CanFail(body, f)
            /\ D_Return("create_schemas",
                     D_run(State(None), body, f, e, D_create_schemas_caught(body)),
                     body, f, e)

\* create_tables(), lines 25-31
D_create_tables ==
    \E f \in DDLFailPoints, e \in Errors :
        LET body == D_loop(1, "run_sync")
        IN  /\ D_CanFail(body, f)
            /\ D_Return("create_tables", D_run(State(None), body, f, e, {}), body, f, e)

\* drop_tables(), lines 33-39
D_drop_tables ==
    \E f \in DDLFailPoints, e \in Errors :
        LET body == D_loop(1, "run_sync")
        IN  /\ D_CanFail(body, f)
            /\ D_Return("drop_tables", D_run(State(None), body, f, e, {}), body, f, e)

\* create_sequences(), lines 41-47
D_create_sequences ==
    \E n \in 0..MaxItems, f \in DDLFailPoints, e \in Errors :
        LET body == D_loop(n, "execute")
        IN  /\ D_CanFail(body, f)
            /\ D_Return("create_sequences", D_run(State(None), body, f, e, {}),
                     body, f, e)

\* seed_data(), lines 49-51
D_seed_data ==
    \E f \in DDLFailPoints, e \in Errors :
        LET body == D_loop(1, "execute")
        IN  /\ D_CanFail(body, f)
            /\ D_Return("seed_data", D_run(State(None), body, f, e, {}), body, f, e)

--------------------------------------------------------------------------
\* Operations run one after another.

Next ==
    \/ D_create_schemas
    \/ D_create_tables
    \/ D_drop_tables
    \/ D_create_sequences
    \/ D_seed_data
    \/ W_insert
    \/ W_start_transaction
    \/ W_commit
    \/ W_upsert
    \/ W_insert_ignore
    \/ W_insert_ignore_get_id
    \/ W_bulk_insert
    \/ W_update
    \/ W_delete
    \/ W_execute
    \/ W_execute_statement
    \/ W_rollback
    \/ R_select
    \/ R_select_all
    \/ R_execute
    \/ R_execute_in_batch

Spec == Init /\ [][Next]_vars

--------------------------------------------------------------------------
\* Operations of one ReadRepository as asyncio tasks.  A task runs until it
\* awaits: at "await session.execute(...)" (lines 51, 65, 71, 76), at the
\* yield of execute_in_batch (line 81) and at "await self.__session.close()"
\* (line 40), where the other task may run.
\*   pc: idle | execute | yielded | close_except | close_finally
\*   mine: the session the operation's "async with" was given
\*   target: the session whose close() is awaited
\*   pending: the error being raised through the finally block

C_Set(t, st, rec) ==
    /\ r_session' = st.held
    /\ sessions' = st.sess
    /\ log' = st.log
    /\ tasks' = [tasks EXCEPT ![t] = rec]
    /\ UNCHANGED <<w_session, last>>

\* session(), lines 35-36, up to the await inside close() (line 40)
C_EnterFinally(t, st, pending) ==
    IF st.held # None
    THEN C_Set(t, st, [tasks[t] EXCEPT !.pc = "close_finally",
                                       !.target = st.held,
                                       !.pending = pending])
    ELSE C_Set(t, st, IdleTask)

\* session(), lines 31-33, up to the await inside close() (line 40)
C_EnterExcept(t, st, e) ==
    LET s1 == LoggerError(st, e)
    IN  IF s1.held # None
        THEN C_Set(t, s1, [tasks[t] EXCEPT !.pc = "close_except",
                                           !.target = s1.held,
                                           !.pending = e])
        ELSE C_EnterFinally(t, s1, e)

\* the loop of execute_in_batch, lines 77-81: yield a batch, or leave
C_FetchMany(t, st) ==
    IF tasks[t].left > 0
    THEN C_Set(t, st, [tasks[t] EXCEPT !.pc = "yielded", !.left = @ - 1])
    ELSE C_EnterFinally(t, st, NoErr)

ReadOps == {"select", "select_all", "execute", "execute_in_batch"}

\* An operation is called: session() creates the session (Session() does no
\* I/O and is taken to return here) and the body awaits session.execute.
C_Start(t) ==
    \E op \in ReadOps, nb \in 0..MaxBatches :
        /\ tasks[t].pc = "idle"
        /\ nops < MaxConcOps
        /\ op # "execute_in_batch" => nb = 0
        /\ nops' = nops + 1
        /\ LET st == R_session_enter(State(r_session))
           IN  C_Set(t, st, [pc |-> "execute", op |-> op, mine |-> st.held,
                             target |-> None, pending |-> NoErr, left |-> nb])

\* session.execute returns; the rows are fetched.
C_ExecuteReturn(t) ==
    /\ tasks[t].pc = "execute"
    /\ UNCHANGED nops
    /\ IF tasks[t].op = "execute_in_batch"
       THEN C_FetchMany(t, State(r_session))
       ELSE C_EnterFinally(t, State(r_session), NoErr)

\* session.execute raises.
C_ExecuteRaise(t) ==
    \E e \in Errors :
        /\ tasks[t].pc = "execute"
        /\ UNCHANGED nops
        /\ C_EnterExcept(t, State(r_session), e)

\* session.execute returned and the fetch that follows raises, or the fetch
\* of the next batch raises; select handles it (lines 53-56).
C_FetchRaise(t) ==
    \E e \in Errors :
        /\ tasks[t].pc \in {"execute", "yielded"}
        /\ UNCHANGED nops
        /\ IF tasks[t].op = "select"
           THEN C_EnterFinally(t, State(r_session), NoErr)
           ELSE C_EnterExcept(t, State(r_session), e)

\* The consumer of execute_in_batch asks for the next batch.
C_Resume(t) ==
    /\ tasks[t].pc = "yielded"
    /\ UNCHANGED nops
    /\ C_FetchMany(t, State(r_session))

\* The consumer closes the generator of execute_in_batch: GeneratorExit is
\* raised at the yield; it is no Exception, so only the finally block runs.
C_Aclose(t) ==
    /\ tasks[t].pc = "yielded"
    /\ UNCHANGED nops
    /\ C_EnterFinally(t, State(r_session), NoErr)

\* The awaited close() returns: lines 41-42, then the raise of line 34 and
\* the finally block, or the end of the operation.
C_CloseReturn(t) ==
    /\ tasks[t].pc \in {"close_except", "close_finally"}
    /\ UNCHANGED nops
    /\ LET st == R_close_done(State(r_session), tasks[t].target)
       IN  IF tasks[t].pc = "close_except"
           THEN C_EnterFinally(t, st, tasks[t].pending)
           ELSE C_Set(t, st, IdleTask)

ConcNext ==
    \E t \in Tasks :
        \/ C_Start(t)
        \/ C_ExecuteReturn(t)
        \/ C_ExecuteRaise(t)
        \/ C_FetchRaise(t)
        \/ C_Resume(t)
        \/ C_Aclose(t)
        \/ C_CloseReturn(t)

ConcSpec == Init /\ [][ConcNext]_vars

--------------------------------------------------------------------------
\* Properties.

\* An ORM call raised during the operation that finished last.
Injected == last.injected # NoErr

\* The session the last operation was given is closed.
LastSessionClosed ==
    last.session # None => ~sessions[last.session].open

SelectFetchCaught ==
    last.repo = "read" /\ last.op = "select" /\ last.failcall = "fetchone"

\* create_schemas' own handler around connection.execute
CreateSchemaCaught ==
    last.repo = "ddl" /\ last.op = "create_schemas" /\ last.failcall = "execute"

W_OpenSessions ==
    {i \in DOMAIN sessions : sessions[i].owner = "write" /\ sessions[i].open}

\* A WriteRepository operation ran in this step.
W_Step == nops' # nops /\ last'.repo = "write"

\* C3: WriteRepository creates a session only when it holds none; an
\* operation called while a session is held is given that same session; the
\* only session of the repository that can be open is the one it holds, so
\* at most one is open.
C3_SharedSession ==
    /\ [](W_OpenSessions \subseteq {w_session})
    /\ [][W_Step =>
            /\ Len(sessions') > Len(sessions) => w_session = None
            /\ w_session # None =>
                   /\ last'.session = w_session
                   /\ sessions[w_session].open
                   /\ Len(sessions') = Len(sessions)]_vars

\* C3's case: an operation was given the session an earlier operation created.
C3_Witness ==
    /\ last.repo = "write" /\ ~last.created /\ last.outcome = "ok"
    /\ last.session # None /\ w_session = last.session

\* commit returned normally.
CommitReturned ==
    last.repo = "write" /\ last.op = "commit" /\ last.outcome = "ok"

\* C4: whenever commit returns normally, the session's commit came before
\* its close, the session is closed and the repository holds none; the next
\* WriteRepository operation is given a session created for it.
C4_Commit ==
    /\ [](CommitReturned =>
            /\ last.session # None
            /\ ~sessions[last.session].open
            /\ w_session = None
            /\ \E i, j \in DOMAIN last.trace :
                   i < j /\ last.trace[i] = "commit" /\ last.trace[j] = "close")
    /\ [][CommitReturned /\ W_Step /\ last'.failcall # "Session" =>
            /\ last'.created
            /\ last'.session \notin DOMAIN sessions]_vars

\* C4's case: commit returned normally on a session held since an earlier
\* operation.
C4_Witness == CommitReturned /\ ~last.created /\ nops >= 2

\* C5 as stated: whenever rollback returns normally, the session it rolled
\* back is closed and the repository holds no session.
C5_Rollback ==
    last.repo = "write" /\ last.op = "rollback" /\ last.outcome = "ok" =>
        w_session = None /\ LastSessionClosed

\* A task is between the start of its with-body and its end.
Using(t) == tasks[t].pc \in {"execute", "yielded"}

\* C6 as stated: for any interleaving of two operations on one
\* ReadRepository, each operation has a session of its own, no operation's
\* session is closed while the operation still uses it, and once both have
\* finished every session the repository created is closed.
C6_Concurrent ==
    /\ \A t, u \in Tasks :
           t # u /\ Using(t) /\ Using(u) => tasks[t].mine # tasks[u].mine
    /\ \A t \in Tasks : Using(t) => sessions[tasks[t].mine].open
    /\ (\A t \in Tasks : tasks[t].pc = "idle") =>
           \A i \in DOMAIN sessions :
               sessions[i].owner = "read" => ~sessions[i].open

==========================================================================
